---- MODULE Spec2Model ----
(***************************************************************************)
(* Model of the ingestion admission pipeline                               *)
(* (assemblyline_ui/api/v4/ingest.py, ingest_single_file) and of the live  *)
(* status / control request-reply handlers (al_ui/api/tbd/live.py).        *)
(*                                                                         *)
(* Python values are modelled as follows:                                  *)
(*   - a dict is a function whose domain is its set of keys;               *)
(*   - a path or file name is the sequence of its "/"-separated            *)
(*     components, None is the empty sequence and "" is <<"">>;            *)
(*   - a value whose Python type is tested by the code carries a tag       *)
(*     [t |-> type, v |-> value].                                          *)
(***************************************************************************)
EXTENDS Integers, Sequences, FiniteSets, TLC

\* ------------------------------------------------------------------ bounds

\* Requests one worker handles one after the other (sequential specification).
MaxAttempts == 2

\* ------------------------------------------------------- python dict helpers

EmptyDict == [k \in {} |-> TRUE]

Has(d, k) == k \in DOMAIN d

Get(d, k, default) == IF k \in DOMAIN d THEN d[k] ELSE default

\* dict.update(e): the keys of e win.
Update(d, e) ==
  [k \in (DOMAIN d) \cup (DOMAIN e) |-> IF k \in DOMAIN e THEN e[k] ELSE d[k]]

\* d with key k removed (dict.pop's effect on the dict).
Without(d, k) == [j \in (DOMAIN d) \ {k} |-> d[j]]

\* ------------------------------------------------------------ names, paths

NonePath == <<>>

TruthyPath(n) == n # NonePath /\ n # <<"">>

\* A value with its Python type: t is "none", "int", "bool" or "str"; v is the
\* integer, 0/1 for a bool, and the length for a string.
Tagged(t, v) == [t |-> t, v |-> v]
NoneVal == Tagged("none", 0)
Truthy(x) == x.v # 0
\* isinstance(x, int): a Python bool is an int.
IsInt(x) == x.t \in {"int", "bool"}
IsBool(x) == x.t = "bool"

\* os.path.basename: the component after the last "/".
Basename(n) == <<n[Len(n)]>>

\* ------------------------------------------------------------ file contents

\* The byte contents the model distinguishes.  A cart_* content is a wrapper
\* (CaRT) around another content.
Blobs == {"empty", "small", "big", "cart_small", "cart_empty", "cart_big", "cart_id"}

Size(b) ==
  CASE b = "empty" -> 0
    [] b = "small" -> 1
    [] b = "big" -> 3
    [] b = "cart_small" -> 2
    [] b = "cart_empty" -> 1
    [] b = "cart_big" -> 1
    [] b = "cart_id" -> 2

\* The content hash, a string without "/" (so a one-component name): distinct
\* contents have distinct hashes.
Sha256(b) == <<"sha256:" \o b>>

\* A well-formed hash that no content of the model has.
UnknownHash == <<"sha256:unknown">>

IsCart(b) == b \in {"cart_small", "cart_empty", "cart_big", "cart_id"}

Inner(b) ==
  CASE b = "cart_small" -> "small"
    [] b = "cart_empty" -> "empty"
    [] b = "cart_big" -> "big"
    [] b = "cart_id" -> "small"
    [] OTHER -> b

\* The metadata embedded in a wrapper.
CartMeta(b) ==
  CASE b = "cart_small" -> [name |-> <<"inner.bin">>]
    [] b = "cart_id" -> [ingest_id |-> 0, source |-> "cart"]
    [] OTHER -> EmptyDict

\* identify.fileinfo(path) of a file holding content b.
FileInfo(b) == [sha256 |-> Sha256(b), size |-> Size(b)]

\* ------------------------------------------------------------- responses

\* make_api_response(body, err, status_code); body holds the ingest_id, if any.
Response(status, err) == [status |-> status, err |-> err, body |-> <<>>]
Success(ingest_id) == [status |-> 200, err |-> "", body |-> <<ingest_id>>]
\* An exception that leaves the handler (after its finally block).
Unhandled == [status |-> 500, err |-> "unhandled exception", body |-> <<>>]
NoResponse == [status |-> 0, err |-> "", body |-> <<>>]

\* ------------------------------------------- ingest: the steps of the handler

\* The outcome of a step: "ok" (go on), "reject" (an early return with resp)
\* or "raise" (an exception that leaves the try block).
Ok(fields) == Update([kind |-> "ok", resp |-> NoResponse], fields)
Reject(status, err) == [kind |-> "reject", resp |-> Response(status, err)]
Raise == [kind |-> "raise", resp |-> Unhandled]

\* bool(binary): a werkzeug FileStorage is truthy when it has a filename.
TruthyBinary(bin) == bin.present /\ TruthyPath(bin.filename)

\* "Get data block and binary blob": the content type decides where the data
\* block, the binary, the hash, the url and the name come from.
ParseRequest(req) ==
  IF req.ctype = "multipart/form-data"
  THEN LET data == IF req.hasJson THEN req.json ELSE EmptyDict
       IN Ok([data |-> data, binary |-> req.bin,
              name |-> Get(data, "name", req.bin.filename),
              sha256 |-> NonePath, url |-> NonePath])
  ELSE IF req.ctype = "application/json"
  THEN LET data == req.json
           sha256 == Get(data, "sha256", NonePath)
           url == Get(data, "url", NonePath)
           given == Get(data, "name", NonePath)
       IN IF TruthyPath(given)
          THEN Ok([data |-> data, binary |-> req.bin, name |-> given,
                   sha256 |-> sha256, url |-> url])
          ELSE IF TruthyPath(sha256)
          THEN Ok([data |-> data, binary |-> req.bin, name |-> sha256,
                   sha256 |-> sha256, url |-> url])
          \* os.path.basename(None) raises TypeError
          ELSE IF url = NonePath THEN Raise
          ELSE Ok([data |-> data, binary |-> req.bin,
                   name |-> IF TruthyPath(Basename(url)) THEN Basename(url) ELSE NonePath,
                   sha256 |-> sha256, url |-> url])
  ELSE Reject(400, "Invalid content type")

\* safe_str leaves a printable ASCII name as it is; the names of the model are
\* printable ASCII.
SafeStr(n) == n

\* Data block, notification parameters, generate_alert and file name checks.
ValidateRequest(parsed) ==
  LET data == parsed.data
      notification_threshold == Get(data, "notification_threshold", NoneVal)
      generate_alert == Get(data, "generate_alert", Tagged("bool", 0))
  IN IF DOMAIN data = {} THEN Reject(400, "Missing data block")
     ELSE IF ~IsInt(notification_threshold) /\ Truthy(notification_threshold)
     THEN Reject(400, "notification_threshold should be and int")
     ELSE IF ~IsBool(generate_alert)
     THEN Reject(400, "generate_alert should be a boolean")
     ELSE IF ~TruthyPath(parsed.name) THEN Reject(400, "Filename missing")
     ELSE IF ~TruthyPath(SafeStr(Basename(parsed.name)))
     THEN Reject(400, "Invalid filename")
     ELSE Ok([name |-> SafeStr(Basename(parsed.name)),
              notification_queue |-> Get(data, "notification_queue", ""),
              notification_threshold |-> notification_threshold,
              generate_alert |-> (generate_alert.v = 1)])

\* f_transport.exists(sha256) on a store holding the contents in store.
Exists(store, sha256) == \E b \in store : Sha256(b) = sha256

Stored(store, sha256) == CHOOSE b \in store : Sha256(b) = sha256

\* No file written, no loader called.
Stop(o) ==
  Update([wrote |-> FALSE, blob |-> "none", extra_meta |-> EmptyDict, loader |-> "none"], o)

\* The outcome o of a call of loader.
By(loader, o) == Update(o, [loader |-> loader])

\* A download whose handler answers ForbiddenLocation as it answers
\* InvalidUrlException.
SafeDownload_ForbiddenAsInvalid(req, parsed, mkdir) ==
  IF req.env.fault = "download" \/ ~mkdir
  THEN By("safe_download", Stop(Raise))
  ELSE IF req.env.fetch = "FileTooBigException"
  THEN By("safe_download", Stop(Reject(400, "File too big to be scanned.")))
  ELSE IF req.env.fetch \in {"InvalidUrlException", "ForbiddenLocation"}
  THEN By("safe_download", Stop(Reject(400, "Url provided is invalid.")))
  ELSE Ok([wrote |-> TRUE, blob |-> req.env.fetched,
           extra_meta |-> [submitted_url |-> parsed.url],
           loader |-> "safe_download"])

\* safe_download(url, out_file) and its exceptions.
SafeDownload(req, parsed, mkdir) ==
  IF req.env.fault = "download" \/ ~mkdir
  THEN By("safe_download", Stop(Raise))
  ELSE IF req.env.fetch = "FileTooBigException"
  THEN By("safe_download", Stop(Reject(400, "File too big to be scanned.")))
  ELSE IF req.env.fetch = "InvalidUrlException"
  THEN By("safe_download", Stop(Reject(400, "Url provided is invalid.")))
  ELSE IF req.env.fetch = "ForbiddenLocation"
  THEN By("safe_download", Stop(Reject(400, "Hostname in this URL cannot be resolved.")))
  ELSE Ok([wrote |-> TRUE, blob |-> req.env.fetched,
           extra_meta |-> [submitted_url |-> parsed.url],
           loader |-> "safe_download"])

\* The url branch without the allow_url_submissions test.
LoadUrl_NoGate(req, parsed, mkdir, allow_url_submissions) ==
  SafeDownload(req, parsed, mkdir)

\* The url branch of "Load file": the allow_url_submissions test, then the
\* download.
LoadUrl(req, parsed, mkdir, allow_url_submissions) ==
  IF ~allow_url_submissions
  THEN Stop(Reject(400, "URL submissions are disabled in this system"))
  ELSE SafeDownload(req, parsed, mkdir)

\* "Load file" without the exists() test: the download of a hash the store
\* does not hold raises.
LoadFile_NoExistsCheck(req, parsed, mkdir, allow_url_submissions, store) ==
  IF ~TruthyBinary(parsed.binary)
  THEN IF TruthyPath(parsed.sha256)
       THEN IF req.env.fault = "download" \/ ~mkdir \/ ~Exists(store, parsed.sha256)
            THEN By("f_transport.download", Stop(Raise))
            ELSE Ok([wrote |-> TRUE, blob |-> Stored(store, parsed.sha256),
                     extra_meta |-> EmptyDict, loader |-> "f_transport.download"])
       ELSE IF TruthyPath(parsed.url)
       THEN LoadUrl(req, parsed, mkdir, allow_url_submissions)
       ELSE Stop(Reject(400, "Missing file to scan. No binary, sha256 or url provided."))
  ELSE IF req.env.fault = "download" \/ ~mkdir THEN By("binary.save", Stop(Raise))
       ELSE Ok([wrote |-> TRUE, blob |-> parsed.binary.blob,
                extra_meta |-> EmptyDict, loader |-> "binary.save"])

\* "Load file": the bytes are put in out_file.  wrote tells whether out_file
\* exists afterwards, blob is its content.  env.fault names the collaborator
\* call that raises an unexpected error (if any), env.fetch is the outcome of
\* safe_download, loader is the call made to get the bytes ("none": no call).  A write into a directory that makedirs failed to create
\* raises.
LoadFile(req, parsed, mkdir, allow_url_submissions, store) ==
  IF ~TruthyBinary(parsed.binary)
  THEN IF TruthyPath(parsed.sha256)
       THEN IF Exists(store, parsed.sha256)
            THEN IF req.env.fault = "download" \/ ~mkdir
                 THEN By("f_transport.download", Stop(Raise))
                 ELSE Ok([wrote |-> TRUE, blob |-> Stored(store, parsed.sha256),
                          extra_meta |-> EmptyDict, loader |-> "f_transport.download"])
            ELSE Stop(Reject(404, "SHA256 does not exist in our datastore"))
       ELSE IF TruthyPath(parsed.url)
       THEN LoadUrl(req, parsed, mkdir, allow_url_submissions)
       ELSE Stop(Reject(400, "Missing file to scan. No binary, sha256 or url provided."))
  ELSE IF req.env.fault = "download" \/ ~mkdir THEN By("binary.save", Stop(Raise))
       ELSE Ok([wrote |-> TRUE, blob |-> parsed.binary.blob,
                extra_meta |-> EmptyDict, loader |-> "binary.save"])

Min(a, b) == IF a <= b THEN a ELSE b

\* The priority the handler resets the user's setting to.
DefaultPriority == 150

\* "Reset dangerous user settings to safe values"
SafetySet ==
  [deep_scan |-> FALSE, priority |-> DefaultPriority, ignore_cache |-> FALSE,
   ignore_dynamic_recursion_prevention |-> FALSE, ignore_filtering |-> FALSE,
   type |-> "INGEST"]

\* BuildParams without the clamps of priority and ttl.
BuildParams_NoClamp(user, data, generate_alert, cfg) ==
  LET s1 == Update(user.params, SafetySet)
      s2 == Update(s1, Get(data, "params", EmptyDict))
      s3 == IF ~Has(s2, "groups") THEN Update(s2, [groups |-> user.groups]) ELSE s2
  IN Update(s3,
       [generate_alert |-> generate_alert,
        max_extracted |-> cfg.default_max_extracted,
        max_supplementary |-> cfg.default_max_supplementary,
        submitter |-> user.uname])

\* The params of the job, in the order of the code: the user's defaults, the
\* reset of the dangerous settings, the params of the data block, groups,
\* "Override final parameters", "Enforce maximum DTL".
BuildParams(user, data, generate_alert, cfg) ==
  LET s1 == Update(user.params, SafetySet)
      s2 == Update(s1, Get(data, "params", EmptyDict))
      s3 == IF ~Has(s2, "groups") THEN Update(s2, [groups |-> user.groups]) ELSE s2
      s4 == Update(s3,
              [generate_alert |-> generate_alert,
               max_extracted |-> cfg.default_max_extracted,
               max_supplementary |-> cfg.default_max_supplementary,
               priority |-> Min(Get(s3, "priority", DefaultPriority), cfg.ingest_max_priority),
               submitter |-> user.uname])
  IN IF cfg.max_dtl > 0
     THEN [s4 EXCEPT !.ttl = IF s4.ttl # 0 THEN Min(s4.ttl, cfg.max_dtl) ELSE cfg.max_dtl]
     ELSE s4

\* SizeGate with the override covering the empty file too.
SizeGate_OverrideCoversEmpty(fileinfo, s_params, max_size) ==
  IF Get(s_params, "ignore_size", FALSE) THEN "pass"
  ELSE IF fileinfo.size > max_size THEN "too_large"
  ELSE IF fileinfo.size = 0 THEN "empty"
  ELSE "pass"

\* SizeGate without the override.
SizeGate_NoOverride(fileinfo, s_params, max_size) ==
  IF fileinfo.size > max_size THEN "too_large"
  ELSE IF fileinfo.size = 0 THEN "empty"
  ELSE "pass"

\* "Validate file size": the kind of rejection, or "pass".
SizeGate(fileinfo, s_params, max_size) ==
  IF fileinfo.size > max_size /\ ~Get(s_params, "ignore_size", FALSE)
  THEN "too_large"
  ELSE IF fileinfo.size = 0 THEN "empty"
  ELSE "pass"

\* decode_file(out_file, fileinfo): a wrapper is unpacked into a new file, with
\* the fileinfo of the unpacked content and the wrapper's metadata.
DecodeFile(blob, fileinfo) ==
  IF IsCart(blob)
  THEN [extracted |-> TRUE, blob |-> Inner(blob), fileinfo |-> FileInfo(Inner(blob)),
        al_meta |-> CartMeta(blob)]
  ELSE [extracted |-> FALSE, blob |-> blob, fileinfo |-> fileinfo, al_meta |-> EmptyDict]

\* flatten() of a metadata dict without nested dicts is the dict itself; the
\* metadata of the model's requests has no nested dicts.
Flatten(d) == d

\* "Setup notification queue if needed" ... "Create submission object": the
\* job record built from the locals l of the handler and a fresh ingest_id.
BuildJob(l, ingest_id) ==
  LET notification_params ==
        IF l.notification_queue # ""
        THEN [queue |-> l.notification_queue, threshold |-> l.notification_threshold]
        ELSE EmptyDict
      m1 == Update(Flatten(Get(l.data, "metadata", EmptyDict)),
                   [ingest_id |-> ingest_id, type |-> l.s_params.type])
      name == Get(l.al_meta, "name", l.name)
      m2 == Update(m1, Without(l.al_meta, "name"))
      m3 == IF ~Has(m2, "ts") THEN Update(m2, [ts |-> "now"]) ELSE m2
      m4 == Update(m3, l.extra_meta)
      description ==
        IF l.s_params.description # <<>> THEN l.s_params.description
        ELSE <<l.s_params.type, "Inspection of file", name>>
  IN [sid |-> ingest_id,
      files |-> <<[name |-> name, sha256 |-> l.fileinfo.sha256, size |-> l.fileinfo.size]>>,
      notification |-> notification_params,
      metadata |-> m4,
      params |-> [l.s_params EXCEPT !.description = description]]

\* The paths of one attempt: its temp directory is named by a random id.
OutDir(id) == <<id, "dir">>
OriginalFile(id) == <<id, "original">>
ExtractedPath(id) == <<id, "extracted">>

\* A finally block that forgets the unpacked file.
CleanupFiles_OriginalOnly(files, l) ==
  files \ {OutDir(l.out_dir), OriginalFile(l.out_dir)}

\* The finally block, "Cleanup files on disk": the files on disk afterwards.
CleanupFiles(files, l) ==
  LET f1 == IF l.original_file /\ OriginalFile(l.out_dir) \in files
            THEN files \ {OriginalFile(l.out_dir)} ELSE files
      f2 == IF l.extracted_path /\ ExtractedPath(l.out_dir) \in f1
            THEN f1 \ {ExtractedPath(l.out_dir)} ELSE f1
  \* shutil.rmtree(out_dir): the directory and what is in it
  IN IF OutDir(l.out_dir) \in f2
     THEN f2 \ {OutDir(l.out_dir), OriginalFile(l.out_dir)}
     ELSE f2

\* ------------------------------------------------------------------- state

VARIABLES
  config,       \* the configuration the handlers read
  w,            \* ingest workers: position and locals of the request in hand
  disk,         \* the paths that exist under TEMP_SUBMIT_DIR (and unpacked files)
  filestore,    \* the contents in the content-addressed store
  filerecords,  \* the datastore's file records: sha256 -> what was freshened
  ingestQ,      \* the "m-ingest" queue
  nextId,       \* get_random_id: the ids handed out so far
  uploads,      \* history: the hashes of the f_transport.upload calls, in order
  returned,     \* history: the responses the handler returned, in order
  store0        \* history: the contents of the store before the first request

ingestVars ==
  <<config, w, disk, filestore, filerecords, ingestQ, nextId, uploads, returned, store0>>

VARIABLES
  queues,       \* the named queues of the live API: name -> messages, head first
  lp,           \* live API calls: position and locals of the call in hand
  nextReply,    \* reply_queue_name: the names handed out so far
  pushed,       \* history: the number of messages the producer pushed
  ctlPushed,    \* history: the messages pushed on control-queue, in order
  replyLog      \* history: the replies the engine pushed, in order

liveVars == <<queues, lp, nextReply, pushed, ctlPushed, replyLog>>

vars == <<ingestVars, liveVars>>

\* No request in hand.
NoRequest ==
  [ctype |-> "", hasJson |-> FALSE, json |-> EmptyDict,
   bin |-> [present |-> FALSE, filename |-> NonePath, blob |-> "none"],
   user |-> EmptyDict,
   env |-> [fault |-> "none", fetch |-> "ok", fetched |-> "none", odm |-> TRUE]]

\* The locals of ingest_single_file before a request is parsed.  req (the
\* request in hand) and loader (the call that loaded the file) are history.
IdleLocals ==
  [pc |-> "idle", attempt |-> 1, resp |-> NoResponse, out_dir |-> 0,
   original_file |-> FALSE, extracted_path |-> FALSE,
   name |-> NonePath, data |-> EmptyDict,
   notification_queue |-> "", notification_threshold |-> NoneVal,
   s_params |-> EmptyDict, fileinfo |-> [sha256 |-> NonePath, size |-> 0],
   original_blob |-> "none", blob |-> "none", al_meta |-> EmptyDict, extra_meta |-> EmptyDict,
   env |-> [fault |-> "none", fetch |-> "ok", fetched |-> "none", odm |-> TRUE],
   found |-> FALSE, req |-> NoRequest, loader |-> "none"]

\* ingest_single_file from its first line to "Decode cart if needed": the
\* locals afterwards and the paths created on disk.  id is the random id that
\* names out_dir.  The handler goes on to the store ("exists") or leaves the
\* try block with a response ("cleanup").
Admit(l0, req, cfg, store, id) ==
  LET base == [l0 EXCEPT !.out_dir = id, !.env = req.env, !.req = req]
      End(l, o, created) ==
        [l |-> [l EXCEPT !.pc = "cleanup", !.resp = o.resp], created |-> created]
      parsed == ParseRequest(req)
  IN IF parsed.kind # "ok" THEN End(base, parsed, {})
     ELSE
     LET valid == ValidateRequest(parsed)
     IN IF valid.kind # "ok" THEN End(base, valid, {})
     ELSE
     LET mkdir == req.env.fault # "makedirs"
         loaded == LoadFile(req, parsed, mkdir, cfg.allow_url_submissions, store)
         l1 == [base EXCEPT !.original_file = TRUE, !.name = valid.name,
                            !.data = parsed.data,
                            !.notification_queue = valid.notification_queue,
                            !.notification_threshold = valid.notification_threshold,
                            !.loader = loaded.loader]
         files == (IF mkdir THEN {OutDir(id)} ELSE {})
                    \cup (IF loaded.wrote THEN {OriginalFile(id)} ELSE {})
     IN IF loaded.kind # "ok" THEN End(l1, loaded, files)
     ELSE
     LET s_params == BuildParams(req.user, parsed.data, valid.generate_alert, cfg)
         fileinfo == FileInfo(loaded.blob)
         l2 == [l1 EXCEPT !.s_params = s_params, !.extra_meta = loaded.extra_meta,
                          !.original_blob = loaded.blob, !.blob = loaded.blob,
                          !.fileinfo = fileinfo]
         gate == SizeGate(fileinfo, s_params, cfg.max_file_size)
     IN IF req.env.fault = "fileinfo" THEN End(l2, Raise, files)
        ELSE IF gate = "too_large"
        THEN End(l2, Reject(400, "File too large. Ingestion failed"), files)
        ELSE IF gate = "empty"
        THEN End(l2, Reject(400, "File empty. Ingestion failed"), files)
        ELSE IF req.env.fault = "decode" THEN End(l2, Raise, files)
        ELSE
        LET d == DecodeFile(loaded.blob, fileinfo)
        IN [l |-> [l2 EXCEPT !.pc = "exists", !.extracted_path = d.extracted,
                             !.blob = d.blob, !.fileinfo = d.fileinfo,
                             !.al_meta = d.al_meta],
            created |-> files \cup (IF d.extracted THEN {ExtractedPath(id)} ELSE {})]

\* ------------------------------------------------------------ ingest actions

\* A worker takes request req and runs the handler up to the store.
Receive(p, req) ==
  /\ w[p].pc = "idle"
  /\ LET a == Admit(w[p], req, config, filestore, nextId)
     IN /\ w' = [w EXCEPT ![p] = a.l]
        /\ disk' = disk \cup a.created
  /\ nextId' = nextId + 1
  /\ UNCHANGED <<liveVars, config, store0, filestore, filerecords, ingestQ, uploads, returned>>

\* An exists() check that never finds the hash: every attempt uploads.
CheckExists_AlwaysUpload(p) ==
  /\ w[p].pc = "exists"
  /\ w' = [w EXCEPT ![p].found = FALSE, ![p].pc = "upload"]
  /\ UNCHANGED <<liveVars, config, store0, disk, filestore, filerecords, ingestQ, nextId, uploads, returned>>

\* "Save the file to the filestore if needs be": the exists() call.
CheckExists(p) ==
  /\ w[p].pc = "exists"
  /\ LET found == Exists(filestore, w[p].fileinfo.sha256)
     IN w' = [w EXCEPT ![p].found = found,
                       ![p].pc = IF found THEN "freshen" ELSE "upload"]
  /\ UNCHANGED <<liveVars, config, store0, disk, filestore, filerecords, ingestQ, nextId, uploads, returned>>

\* An upload whose failure is swallowed: the handler goes on to freshen.
Upload_FailureIgnored(p) ==
  /\ w[p].pc = "upload"
  /\ w' = [w EXCEPT ![p].pc = "freshen"]
  /\ IF w[p].env.fault = "upload"
     THEN UNCHANGED <<filestore, uploads>>
     ELSE /\ filestore' = filestore \cup {w[p].blob}
          /\ uploads' = Append(uploads, w[p].fileinfo.sha256)
  /\ UNCHANGED <<liveVars, config, store0, disk, filerecords, ingestQ, nextId, returned>>

\* f_transport.upload(out_file, sha256, location='far')
Upload(p) ==
  /\ w[p].pc = "upload"
  /\ IF w[p].env.fault = "upload"
     THEN /\ w' = [w EXCEPT ![p].pc = "cleanup", ![p].resp = Unhandled]
          /\ UNCHANGED <<filestore, uploads>>
     ELSE /\ w' = [w EXCEPT ![p].pc = "freshen"]
          /\ filestore' = filestore \cup {w[p].blob}
          /\ uploads' = Append(uploads, w[p].fileinfo.sha256)
  /\ UNCHANGED <<liveVars, config, store0, disk, filerecords, ingestQ, nextId, returned>>

\* now_as_iso(ttl * 24 * 60 * 60) if ttl else None: the days to live, if any.
Expiry(s_params) ==
  IF Get(s_params, "ttl", 0) # 0 THEN <<s_params.ttl>> ELSE <<>>

\* "Freshen file object": STORAGE.save_or_freshen_file(sha256, fileinfo, expiry,
\* classification)
Freshen(p) ==
  /\ w[p].pc = "freshen"
  /\ IF w[p].env.fault = "freshen"
     THEN /\ w' = [w EXCEPT ![p].pc = "cleanup", ![p].resp = Unhandled]
          /\ UNCHANGED filerecords
     ELSE /\ w' = [w EXCEPT ![p].pc = "publish"]
          /\ filerecords' =
               Update(filerecords,
                      [h \in {w[p].fileinfo.sha256} |->
                         [size |-> w[p].fileinfo.size,
                          expiry |-> Expiry(w[p].s_params),
                          classification |-> w[p].s_params.classification]])
  /\ UNCHANGED <<liveVars, config, store0, disk, filestore, ingestQ, nextId, uploads, returned>>

\* A publish step that pushes a job that does not validate before it answers
\* the 400.
Publish_PushUnvalidated(p) ==
  /\ w[p].pc = "publish"
  /\ nextId' = nextId + 1
  /\ IF w[p].env.fault = "push"
     THEN /\ w' = [w EXCEPT ![p].pc = "cleanup", ![p].resp = Unhandled]
          /\ UNCHANGED ingestQ
     ELSE /\ w' = [w EXCEPT ![p].pc = "cleanup",
                            ![p].resp = IF w[p].env.odm THEN Success(nextId)
                                        ELSE Response(400, "job does not validate")]
          /\ ingestQ' = Append(ingestQ, BuildJob(w[p], nextId))
  /\ UNCHANGED <<liveVars, config, store0, disk, filestore, filerecords, uploads, returned>>

\* From "Setup notification queue if needed" to the return: the job is built
\* with a fresh ingest_id and pushed on the ingest queue.  Submission(...)
\* raises ValueError or KeyError when the job does not validate (env.odm).
Publish(p) ==
  /\ w[p].pc = "publish"
  /\ nextId' = nextId + 1
  /\ IF ~w[p].env.odm
     THEN /\ w' = [w EXCEPT ![p].pc = "cleanup",
                            ![p].resp = Response(400, "job does not validate")]
          /\ UNCHANGED ingestQ
     ELSE IF w[p].env.fault = "push"
     THEN /\ w' = [w EXCEPT ![p].pc = "cleanup", ![p].resp = Unhandled]
          /\ UNCHANGED ingestQ
     ELSE /\ w' = [w EXCEPT ![p].pc = "cleanup", ![p].resp = Success(nextId)]
          /\ ingestQ' = Append(ingestQ, BuildJob(w[p], nextId))
  /\ UNCHANGED <<liveVars, config, store0, disk, filestore, filerecords, uploads, returned>>

\* The finally block, then the response goes to the caller.
Cleanup(p) ==
  /\ w[p].pc = "cleanup"
  /\ disk' = CleanupFiles(disk, w[p])
  /\ w' = [w EXCEPT ![p].pc = "done"]
  /\ returned' = Append(returned, [resp |-> w[p].resp, sha256 |-> w[p].fileinfo.sha256])
  /\ UNCHANGED <<liveVars, config, store0, filestore, filerecords, ingestQ, nextId, uploads>>

\* The worker is free for its next request.
NextRequest(p) ==
  /\ w[p].pc = "done"
  /\ w[p].attempt < MaxAttempts
  /\ w' = [w EXCEPT ![p] = [IdleLocals EXCEPT !.attempt = w[p].attempt + 1]]
  /\ UNCHANGED <<liveVars, config, store0, disk, filestore, filerecords, ingestQ, nextId, uploads, returned>>

\* ------------------------------------------------------------ live: queues

\* Messages the producer pushes on a watch queue.
MaxPush == 3

\* Calls one client makes, one after the other.
MaxCalls == 2

ControlQueue == <<"control-queue">>

\* NamedQueue(name): a queue exists once something was pushed on it.
Queue(qs, name) == IF name \in DOMAIN qs THEN qs[name] ELSE <<>>

\* NamedQueue(name).push(msg)
Push(qs, name, msg) ==
  [n \in (DOMAIN qs) \cup {name} |->
     IF n = name THEN Append(Queue(qs, name), msg) ELSE qs[n]]

\* NamedQueue(name).pop(blocking=False): <<>> for None, else the head in a
\* sequence of one.
Peek(qs, name) == IF Queue(qs, name) = <<>> THEN <<>> ELSE <<Head(Queue(qs, name))>>

\* The queues after a pop.
Popped(qs, name) ==
  IF Queue(qs, name) = <<>> THEN qs ELSE [qs EXCEPT ![name] = Tail(qs[name])]

\* The `msg` of a response: None, a text, or the raw message.
MsgNull == [kind |-> "null", text |-> "", raw |-> <<>>]
MsgText(t) == [kind |-> "text", text |-> t, raw |-> <<>>]
MsgRaw(m) == [kind |-> "raw", text |-> "", raw |-> <<m>>]

LiveResponse(type, err_msg, status_code, msg) ==
  [type |-> type, err_msg |-> err_msg, status_code |-> status_code, msg |-> msg]

\* A mapping that does not tell FAIL from OK.
MapMessage_FailAsOk(popped) ==
  IF popped = <<>>
  THEN LiveResponse("timeout", "Timeout waiting for a message.", 408, MsgNull)
  ELSE LET msg == popped[1]
       IN IF msg.status = "STOP"
          THEN LiveResponse("stop", "", 200, MsgText("All messages received, closing queue..."))
          ELSE IF msg.status = "START"
          THEN LiveResponse("start", "", 200, MsgText("Start listening..."))
          ELSE IF msg.status \in {"OK", "FAIL"}
          THEN LiveResponse("cachekey", "", 200, MsgText(msg.cache_key))
          ELSE LiveResponse("error", "Unknown message", 500, MsgRaw(msg))

\* The if/elif chain of get_message and get_messages on the popped message.
MapMessage(popped) ==
  IF popped = <<>>
  THEN LiveResponse("timeout", "Timeout waiting for a message.", 408, MsgNull)
  ELSE LET msg == popped[1]
       IN IF msg.status = "STOP"
          THEN LiveResponse("stop", "", 200, MsgText("All messages received, closing queue..."))
          ELSE IF msg.status = "START"
          THEN LiveResponse("start", "", 200, MsgText("Start listening..."))
          ELSE IF msg.status = "OK"
          THEN LiveResponse("cachekey", "", 200, MsgText(msg.cache_key))
          ELSE IF msg.status = "FAIL"
          THEN LiveResponse("cachekeyerr", "", 200, MsgText(msg.cache_key))
          ELSE LiveResponse("error", "Unknown message", 500, MsgRaw(msg))

\* No caller yet.
NoUser == [uname |-> "", classification |-> ""]

\* The locals of a live API call before the call.
IdleCall ==
  [pc |-> "idle", op |-> "none", calls |-> 0, wq |-> <<>>, resp_list |-> <<>>,
   result |-> <<>>, elapsed |-> 0, sid |-> "", user |-> NoUser,
   \* history: the place of the call's request among those pushed on
   \* control-queue (0: none)
   req_no |-> 0,
   \* history: the queue when the call began, the pops made, whether a message
   \* was pushed during a drain, the queue when the call returned
   atCall |-> <<>>, pops |-> 0, disturbed |-> FALSE, left |-> <<>>]

\* ----------------------------------------------------- live: read actions

\* get_message(wq_id): one non-blocking pop, mapped.
GetMessage(c, wq_id) ==
  /\ lp[c].pc = "idle"
  /\ lp[c].calls < MaxCalls
  /\ lp' = [lp EXCEPT ![c] =
              [IdleCall EXCEPT !.pc = "done", !.op = "get_message",
                               !.calls = lp[c].calls + 1, !.wq = wq_id,
                               !.atCall = Queue(queues, wq_id), !.pops = 1,
                               !.left = Queue(Popped(queues, wq_id), wq_id),
                               !.result = <<MapMessage(Peek(queues, wq_id))>>]]
  /\ queues' = Popped(queues, wq_id)
  /\ UNCHANGED <<ingestVars, nextReply, pushed, ctlPushed, replyLog>>

\* get_messages(wq_id): resp_list = [] and the queue is named.
GetMessagesStart(c, wq_id) ==
  /\ lp[c].pc = "idle"
  /\ lp[c].calls < MaxCalls
  /\ lp' = [lp EXCEPT ![c] =
              [IdleCall EXCEPT !.pc = "loop", !.op = "get_messages",
                               !.calls = lp[c].calls + 1, !.wq = wq_id,
                               !.atCall = Queue(queues, wq_id)]]
  /\ UNCHANGED <<ingestVars, queues, nextReply, pushed, ctlPushed, replyLog>>

\* The loop of get_messages that leaves at a STOP message.
GetMessagesLoop_BreakAtStop(c) ==
  /\ lp[c].pc = "loop"
  /\ LET popped == Peek(queues, lp[c].wq)
     IN IF popped = <<>>
        THEN lp' = [lp EXCEPT ![c].pc = "done", ![c].pops = @ + 1,
                              ![c].left = Queue(queues, lp[c].wq),
                              ![c].result = lp[c].resp_list]
        ELSE IF popped[1].status = "STOP"
        THEN lp' = [lp EXCEPT ![c].pc = "done", ![c].pops = @ + 1,
                              ![c].left = Tail(Queue(queues, lp[c].wq)),
                              ![c].result = Append(lp[c].resp_list, MapMessage(popped))]
        ELSE lp' = [lp EXCEPT ![c].pops = @ + 1,
                              ![c].resp_list = Append(@, MapMessage(popped))]
  /\ queues' = Popped(queues, lp[c].wq)
  /\ UNCHANGED <<ingestVars, nextReply, pushed, ctlPushed, replyLog>>

\* One turn of the `while True` loop of get_messages: pop; None ends the loop
\* and returns resp_list, any message is mapped and appended.
GetMessagesLoop(c) ==
  /\ lp[c].pc = "loop"
  /\ LET popped == Peek(queues, lp[c].wq)
     IN IF popped = <<>>
        THEN lp' = [lp EXCEPT ![c].pc = "done", ![c].pops = @ + 1,
                              ![c].left = Queue(queues, lp[c].wq),
                              ![c].result = lp[c].resp_list]
        ELSE lp' = [lp EXCEPT ![c].pops = @ + 1,
                              ![c].resp_list = Append(@, MapMessage(popped))]
  /\ queues' = Popped(queues, lp[c].wq)
  /\ UNCHANGED <<ingestVars, nextReply, pushed, ctlPushed, replyLog>>

\* The client has its response and may call again.
NextCall(c) ==
  /\ lp[c].pc = "done"
  /\ lp[c].calls < MaxCalls
  /\ lp' = [lp EXCEPT ![c] = [IdleCall EXCEPT !.calls = lp[c].calls]]
  /\ UNCHANGED <<ingestVars, queues, nextReply, pushed, ctlPushed, replyLog>>

\* The external producer (the processing engine) pushes a status message on a
\* watch queue; a drain in progress is marked as disturbed.
Produce(wq_id, msg) ==
  /\ pushed < MaxPush
  /\ pushed' = pushed + 1
  /\ queues' = Push(queues, wq_id, msg)
  /\ lp' = [c \in DOMAIN lp |->
              IF lp[c].pc = "loop" /\ lp[c].wq = wq_id
              THEN [lp[c] EXCEPT !.disturbed = TRUE] ELSE lp[c]]
  /\ UNCHANGED <<ingestVars, nextReply, ctlPushed, replyLog>>

\* --------------------------------------------------- live: control actions

\* The bound of the blocking pop of outstanding_services, in seconds.
PopTimeout == 5

\* make_api_response(body) and make_api_response(..., err, 403); None is <<>>.
ApiResponse(status_code, body) == [status_code |-> status_code, body |-> body]

\* The classifications, from the least to the most restricted.
Level(classification) == IF classification = "U" THEN 0 ELSE 1

\* Classification.is_accessible(user_classification, classification)
IsAccessible(user_c, c) == Level(user_c) >= Level(c)

\* STORAGE.get_submission(sid): <<>> when there is no such submission.
GetSubmission(sid) ==
  CASE sid = "sid.open" -> <<[classification |-> "U"]>>
    [] sid = "sid.restricted" -> <<[classification |-> "R"]>>
    [] OTHER -> <<>>

\* `user and data and Classification.is_accessible(...)`
Allowed(user, data) ==
  data # <<>> /\ IsAccessible(user.classification, data[1].classification)

\* A reply queue name that every call with the prefix shares.
ReplyQueueName_PrefixOnly(prefix, n) == <<prefix, 0>>

\* reply_queue_name(prefix): the prefix and a part no other name has.
ReplyQueueName(prefix, n) == <<prefix, n>>

\* outstanding_services(sid) that pushes its request before the access check.
OutstandingServices_PushThenCheck(c, sid, user) ==
  /\ lp[c].pc = "idle"
  /\ lp[c].calls < MaxCalls
  /\ LET state == "oustanding_services"
         reply_name == ReplyQueueName(state, nextReply)
         request == [sid |-> sid, state |-> state, watch_queue |-> reply_name]
     IN /\ nextReply' = nextReply + 1
        /\ queues' = Push(queues, ControlQueue, request)
        /\ ctlPushed' = Append(ctlPushed, request)
        /\ IF Allowed(user, GetSubmission(sid))
           THEN lp' = [lp EXCEPT ![c] =
                         [IdleCall EXCEPT !.pc = "wait", !.op = "outstanding_services",
                                          !.calls = lp[c].calls + 1, !.wq = reply_name,
                                          !.sid = sid, !.user = user,
                                          !.req_no = Len(ctlPushed) + 1]]
           ELSE lp' = [lp EXCEPT ![c] =
                         [IdleCall EXCEPT !.pc = "done", !.op = "outstanding_services",
                                          !.calls = lp[c].calls + 1,
                                          !.sid = sid, !.user = user,
                                          !.result = <<ApiResponse(403, <<>>)>>]]
  /\ UNCHANGED <<ingestVars, pushed, replyLog>>

\* outstanding_services(sid) up to the blocking pop: the access check, the
\* reply queue name and the push of the request on control-queue.
OutstandingServices(c, sid, user) ==
  /\ lp[c].pc = "idle"
  /\ lp[c].calls < MaxCalls
  /\ IF Allowed(user, GetSubmission(sid))
     THEN LET state == "oustanding_services"
              reply_name == ReplyQueueName(state, nextReply)
              request == [sid |-> sid, state |-> state, watch_queue |-> reply_name]
          IN /\ nextReply' = nextReply + 1
             /\ queues' = Push(queues, ControlQueue, request)
             /\ ctlPushed' = Append(ctlPushed, request)
             /\ lp' = [lp EXCEPT ![c] =
                         [IdleCall EXCEPT !.pc = "wait", !.op = "outstanding_services",
                                          !.calls = lp[c].calls + 1, !.wq = reply_name,
                                          !.sid = sid, !.user = user,
                                          !.req_no = Len(ctlPushed) + 1]]
     ELSE /\ lp' = [lp EXCEPT ![c] =
                      [IdleCall EXCEPT !.pc = "done", !.op = "outstanding_services",
                                       !.calls = lp[c].calls + 1,
                                       !.sid = sid, !.user = user,
                                       !.result = <<ApiResponse(403, <<>>)>>]]
          /\ UNCHANGED <<queues, nextReply, ctlPushed>>
  /\ UNCHANGED <<ingestVars, pushed, replyLog>>

\* setup_watch_queue that answers with the suffix instead of the queue name.
SetupWatchQueue_AnswersSuffix(c, sid, user, suffix) ==
  /\ lp[c].pc = "idle"
  /\ lp[c].calls < MaxCalls
  /\ IF Allowed(user, GetSubmission(sid))
     THEN LET watch_queue == ReplyQueueName(suffix, nextReply)
              request == [state |-> "watch", priority |-> config.submissions_max_priority,
                          sid |-> sid, watch_queue |-> watch_queue]
          IN /\ nextReply' = nextReply + 1
             /\ queues' = Push(queues, ControlQueue, request)
             /\ ctlPushed' = Append(ctlPushed, request)
             /\ lp' = [lp EXCEPT ![c] =
                         [IdleCall EXCEPT !.pc = "done", !.op = "setup_watch_queue",
                                          !.calls = lp[c].calls + 1, !.wq = watch_queue,
                                          !.sid = sid, !.user = user,
                                          !.req_no = Len(ctlPushed) + 1,
                                          !.result =
                                            <<ApiResponse(200, <<[wq_id |-> <<suffix>>]>>)>>]]
     ELSE /\ lp' = [lp EXCEPT ![c] =
                      [IdleCall EXCEPT !.pc = "done", !.op = "setup_watch_queue",
                                       !.calls = lp[c].calls + 1,
                                       !.sid = sid, !.user = user,
                                       !.result = <<ApiResponse(403, <<>>)>>]]
          /\ UNCHANGED <<queues, nextReply, ctlPushed>>
  /\ UNCHANGED <<ingestVars, pushed, replyLog>>

\* setup_watch_queue(sid), suffix being request.args.get('suffix', "WQ"): the
\* access check, the watch queue name, the push of the `watch` request on
\* control-queue, and the name as the answer.
SetupWatchQueue(c, sid, user, suffix) ==
  /\ lp[c].pc = "idle"
  /\ lp[c].calls < MaxCalls
  /\ IF Allowed(user, GetSubmission(sid))
     THEN LET watch_queue == ReplyQueueName(suffix, nextReply)
              request == [state |-> "watch", priority |-> config.submissions_max_priority,
                          sid |-> sid, watch_queue |-> watch_queue]
          IN /\ nextReply' = nextReply + 1
             /\ queues' = Push(queues, ControlQueue, request)
             /\ ctlPushed' = Append(ctlPushed, request)
             /\ lp' = [lp EXCEPT ![c] =
                         [IdleCall EXCEPT !.pc = "done", !.op = "setup_watch_queue",
                                          !.calls = lp[c].calls + 1, !.wq = watch_queue,
                                          !.sid = sid, !.user = user,
                                          !.req_no = Len(ctlPushed) + 1,
                                          !.result =
                                            <<ApiResponse(200, <<[wq_id |-> watch_queue]>>)>>]]
     ELSE /\ lp' = [lp EXCEPT ![c] =
                      [IdleCall EXCEPT !.pc = "done", !.op = "setup_watch_queue",
                                       !.calls = lp[c].calls + 1,
                                       !.sid = sid, !.user = user,
                                       !.result = <<ApiResponse(403, <<>>)>>]]
          /\ UNCHANGED <<queues, nextReply, ctlPushed>>
  /\ UNCHANGED <<ingestVars, pushed, replyLog>>

\* A second passes while the call is blocked on its empty reply queue.
Tick(c) ==
  /\ lp[c].pc = "wait"
  /\ lp[c].elapsed < PopTimeout
  /\ Queue(queues, lp[c].wq) = <<>>
  /\ lp' = [lp EXCEPT ![c].elapsed = @ + 1]
  /\ UNCHANGED <<ingestVars, queues, nextReply, pushed, ctlPushed, replyLog>>

\* A pop that does not wait: None as soon as the queue is found empty.
PopReply_NonBlocking(c) ==
  /\ lp[c].pc = "wait"
  /\ lp' = [lp EXCEPT ![c].pc = "done", ![c].pops = 1,
                      ![c].result = <<ApiResponse(200, Peek(queues, lp[c].wq))>>]
  /\ queues' = Popped(queues, lp[c].wq)
  /\ UNCHANGED <<ingestVars, nextReply, pushed, ctlPushed, replyLog>>

\* NamedQueue(reply_name).pop(timeout=5) returns: the message that arrived
\* before the bound, or None once the bound has expired.
PopReply(c) ==
  /\ lp[c].pc = "wait"
  /\ \/ /\ lp[c].elapsed < PopTimeout
        /\ Queue(queues, lp[c].wq) # <<>>
        /\ lp' = [lp EXCEPT ![c].pc = "done", ![c].pops = 1,
                            ![c].result = <<ApiResponse(200, Peek(queues, lp[c].wq))>>]
        /\ queues' = Popped(queues, lp[c].wq)
     \/ /\ lp[c].elapsed = PopTimeout
        /\ lp' = [lp EXCEPT ![c].pc = "done", ![c].pops = 1,
                            ![c].result = <<ApiResponse(200, <<>>)>>]
        /\ UNCHANGED queues
  /\ UNCHANGED <<ingestVars, nextReply, pushed, ctlPushed, replyLog>>

\* The call blocked on queue name has not used up its bound.
Awaited(name) ==
  \E c \in DOMAIN lp :
    lp[c].pc = "wait" /\ lp[c].wq = name /\ lp[c].elapsed < PopTimeout

\* The external engine takes a request from control-queue and pushes reply on
\* the watch_queue the request names.
EngineAnswer(reply) ==
  /\ Queue(queues, ControlQueue) # <<>>
  /\ LET request == Head(queues[ControlQueue])
     IN /\ queues' = Push(Popped(queues, ControlQueue), request.watch_queue, reply)
        /\ replyLog' = Append(replyLog,
                              [queue |-> request.watch_queue, msg |-> reply,
                               inTime |-> Awaited(request.watch_queue),
                               request |-> Len(ctlPushed) - Len(queues[ControlQueue]) + 1])
  /\ UNCHANGED <<ingestVars, lp, nextReply, pushed, ctlPushed>>

\* The external engine takes a request from control-queue and answers nothing.
EngineIgnore ==
  /\ Queue(queues, ControlQueue) # <<>>
  /\ queues' = Popped(queues, ControlQueue)
  /\ UNCHANGED <<ingestVars, lp, nextReply, pushed, ctlPushed, replyLog>>

\* ------------------------------------------------------------------ inputs

\* The configurations: MAX_SIZE (config.submission.max_file_size),
\* config.ui.ingest_max_priority, config.submission.max_dtl and
\* config.ui.allow_url_submissions vary.
Configs ==
  [max_file_size : {0, 2}, ingest_max_priority : {100, 250}, max_dtl : {0, 15},
   allow_url_submissions : BOOLEAN,
   default_max_extracted : {100}, default_max_supplementary : {100},
   submissions_max_priority : {1000}]

\* One configuration, for the specifications that interleave requests.
DefaultConfig ==
  [max_file_size |-> 2, ingest_max_priority |-> 250, max_dtl |-> 15,
   allow_url_submissions |-> TRUE,
   default_max_extracted |-> 100, default_max_supplementary |-> 100,
   submissions_max_priority |-> 1000]

\* Users, each with ui_to_submission_params(load_user_settings(user)).
CarefulUser ==
  [uname |-> "careful", groups |-> {"G"},
   params |-> [deep_scan |-> FALSE, ignore_cache |-> FALSE,
               ignore_dynamic_recursion_prevention |-> FALSE,
               ignore_filtering |-> FALSE, ignore_size |-> FALSE,
               priority |-> 1000, ttl |-> 0, classification |-> "U",
               description |-> <<>>, type |-> "USER"]]

BoldUser ==
  [uname |-> "bold", groups |-> {"G", "H"},
   params |-> [deep_scan |-> TRUE, ignore_cache |-> TRUE,
               ignore_dynamic_recursion_prevention |-> TRUE,
               ignore_filtering |-> TRUE, ignore_size |-> FALSE,
               priority |-> 1000, ttl |-> 30, classification |-> "R",
               description |-> <<"my files">>, type |-> "USER"]]

Users == {CarefulUser, BoldUser}

\* The `params` a caller puts in the data block.
CallerParams ==
  {EmptyDict,
   [deep_scan |-> TRUE],
   [deep_scan |-> FALSE],
   [ignore_cache |-> TRUE, ignore_filtering |-> TRUE,
    ignore_dynamic_recursion_prevention |-> TRUE],
   [type |-> "USER"],
   [priority |-> 1000],
   [priority |-> 50],
   [ttl |-> 100],
   [ttl |-> 5],
   [priority |-> 1000, ttl |-> 100],
   [ignore_size |-> TRUE]}

\* The collaborator calls that may raise an unexpected error.
Faults == {"makedirs", "download", "fileinfo", "decode", "upload", "freshen", "push"}

NoFault == [fault |-> "none", fetch |-> "ok", fetched |-> "none", odm |-> TRUE]

NoBinary == [present |-> FALSE, filename |-> NonePath, blob |-> "none"]

\* A multipart/form-data request: the `bin` part and, with hasJson, the `json`
\* part.
Multipart(user, hasJson, json, filename, blob, env) ==
  [ctype |-> "multipart/form-data", hasJson |-> hasJson, json |-> json,
   bin |-> [present |-> TRUE, filename |-> filename, blob |-> blob],
   user |-> user, env |-> env]

\* An application/json request.
Json(user, json, env) ==
  [ctype |-> "application/json", hasJson |-> TRUE, json |-> json,
   bin |-> NoBinary, user |-> user, env |-> env]

\* Binary uploads with every caller params, content and user.
UploadRequests ==
  {Multipart(u, TRUE, [params |-> cp], <<"a.exe">>, b, NoFault) :
     u \in Users, cp \in CallerParams, b \in Blobs}

\* Binary uploads during which a collaborator fails.
FaultRequests ==
  {Multipart(CarefulUser, TRUE, [params |-> EmptyDict], <<"a.exe">>, b,
             [NoFault EXCEPT !.fault = f]) :
     f \in Faults, b \in {"small", "cart_small", "empty", "big"}}
  \cup
  {Multipart(CarefulUser, TRUE, [params |-> EmptyDict], <<"a.exe">>, b,
             [NoFault EXCEPT !.odm = FALSE]) : b \in {"small", "big"}}

\* Requests that name a hash.
HashRequests ==
  {Json(CarefulUser, [sha256 |-> h, name |-> <<"a.exe">>], [NoFault EXCEPT !.fault = f]) :
     h \in {Sha256("small"), Sha256("cart_small"), UnknownHash},
     f \in {"none", "download"}}
  \cup {Json(CarefulUser, [sha256 |-> Sha256("small")], NoFault)}

SomeUrl == <<"http:", "", "host", "f.bin">>

\* Requests that name a url, with every outcome of safe_download.
UrlRequests ==
  {Json(CarefulUser, [url |-> SomeUrl],
        [NoFault EXCEPT !.fetch = o, !.fetched = b]) :
     o \in {"ok", "FileTooBigException", "InvalidUrlException", "ForbiddenLocation"},
     b \in {"small", "empty"}}
  \cup
  {Json(CarefulUser, [url |-> SomeUrl, name |-> <<"a.exe">>],
        [NoFault EXCEPT !.fault = f, !.fetched = "small"]) :
     f \in {"makedirs", "download"}}

\* Requests the validation stops.
InvalidRequests ==
  {[Json(CarefulUser, [name |-> <<"a.exe">>], NoFault) EXCEPT !.ctype = "text/plain"],
   Json(CarefulUser, [name |-> <<"a.exe">>], NoFault),
   Json(CarefulUser, [metadata |-> [k |-> "v"]], NoFault),
   Json(CarefulUser, EmptyDict, NoFault),
   Json(CarefulUser, [url |-> <<"http:", "", "host", "">>], NoFault),
   Multipart(CarefulUser, FALSE, EmptyDict, <<"a.exe">>, "small", NoFault),
   Multipart(CarefulUser, TRUE, [name |-> <<"dir", "">>], <<"a.exe">>, "small", NoFault),
   Multipart(CarefulUser, TRUE, [name |-> <<"b.exe">>], <<"">>, "small", NoFault),
   Multipart(CarefulUser, TRUE, [notification_threshold |-> Tagged("str", 4)],
             <<"a.exe">>, "small", NoFault),
   Multipart(CarefulUser, TRUE, [generate_alert |-> Tagged("str", 4)],
             <<"a.exe">>, "small", NoFault)}

Requests ==
  UploadRequests \cup FaultRequests \cup HashRequests \cup UrlRequests
    \cup InvalidRequests

\* The contents the store may hold before the first request.
InitialStores == {{}, {"small"}, {"small", "cart_small"}}

\* The status messages: the four of the protocol, and one with a status the
\* handlers do not know.
StatusMessages ==
  {[status |-> "START"], [status |-> "STOP"],
   [status |-> "OK", cache_key |-> "key.1"],
   [status |-> "FAIL", cache_key |-> "key.2"],
   [status |-> "PAUSED", cache_key |-> "key.3"]}

WatchQueue == <<"wq">>

\* The submission ids of the requests: two submissions and one that is not in
\* the datastore.
Sids == {"sid.open", "sid.restricted", "sid.missing"}

\* The callers of the live API.
LiveUsers == {[uname |-> "user", classification |-> "U"],
              [uname |-> "admin", classification |-> "R"]}

\* What the engine answers: services and the files each has left.
Replies == {[extract |-> 1], [extract |-> 2, scan |-> 1]}

\* ----------------------------------------------------------- specifications

Workers == {1}

Clients == {1, 2}

InitLive ==
  /\ queues = [n \in {WatchQueue} |-> <<>>]
  /\ lp = [c \in Clients |-> IdleCall]
  /\ nextReply = 1
  /\ pushed = 0
  /\ ctlPushed = <<>>
  /\ replyLog = <<>>

Init ==
  /\ InitLive
  /\ config \in Configs
  /\ w = [p \in Workers |-> IdleLocals]
  /\ disk = {}
  /\ filestore \in InitialStores
  /\ store0 = filestore
  /\ filerecords = EmptyDict
  /\ ingestQ = <<>>
  /\ nextId = 1
  /\ uploads = <<>>
  /\ returned = <<>>

\* One worker handles one request.
Next ==
  \E p \in Workers :
    \/ \E req \in Requests : Receive(p, req)
    \/ CheckExists(p)
    \/ Upload(p)
    \/ Freshen(p)
    \/ Publish(p)
    \/ Cleanup(p)

Spec == Init /\ [][Next]_vars

\* The requests of the specifications in which a worker handles several
\* requests, or several workers one each.
SeqRequests ==
  {Multipart(CarefulUser, TRUE, [params |-> EmptyDict], <<"a.exe">>, b, NoFault) :
     b \in {"small", "cart_small", "empty"}}
  \cup
  {Multipart(CarefulUser, TRUE, [params |-> [ignore_size |-> TRUE]], <<"b.exe">>, "big", NoFault),
   Json(CarefulUser, [sha256 |-> Sha256("small"), name |-> <<"a.exe">>], NoFault),
   Json(CarefulUser, [sha256 |-> UnknownHash, name |-> <<"a.exe">>], NoFault),
   Multipart(CarefulUser, TRUE, [params |-> EmptyDict], <<"a.exe">>, "small",
             [NoFault EXCEPT !.fault = "upload"]),
   Multipart(CarefulUser, TRUE, [params |-> EmptyDict], <<"a.exe">>, "small",
             [NoFault EXCEPT !.fault = "freshen"])}

InitSeq ==
  /\ Init
  /\ config = DefaultConfig

\* One worker handles MaxAttempts requests, one after the other.
NextSeq ==
  \E p \in Workers :
    \/ \E req \in SeqRequests : Receive(p, req)
    \/ CheckExists(p)
    \/ Upload(p)
    \/ Freshen(p)
    \/ Publish(p)
    \/ Cleanup(p)
    \/ NextRequest(p)

SpecSeq == InitSeq /\ [][NextSeq]_vars

\* The configuration and store of the specifications of the live API, which
\* reads neither.
InitQuiet ==
  /\ Init
  /\ config = DefaultConfig
  /\ filestore = {}

\* One client polls and drains a watch queue while the producer pushes.
NextLive ==
  \/ \E m \in StatusMessages : Produce(WatchQueue, m)
  \/ GetMessage(1, WatchQueue)
  \/ GetMessagesStart(1, WatchQueue)
  \/ GetMessagesLoop(1)
  \/ NextCall(1)

SpecLive == InitQuiet /\ [][NextLive]_vars

\* One client asks for the outstanding services, call after call, while the
\* engine answers in time, late or not at all.
NextCtl ==
  \/ \E sid \in Sids, user \in LiveUsers : OutstandingServices(1, sid, user)
  \/ Tick(1)
  \/ PopReply(1)
  \/ NextCall(1)
  \/ \E reply \in Replies : EngineAnswer(reply)
  \/ EngineIgnore

SpecCtl == InitQuiet /\ [][NextCtl]_vars

\* The workers that handle requests at the same time.
Handlers == {1, 2}

\* Uploads of the same final content, plain and wrapped, and uploads during
\* which the store or the datastore fails.
ParRequests ==
  {Multipart(CarefulUser, TRUE, [params |-> EmptyDict], <<"a.exe">>, b, NoFault) :
     b \in {"small", "cart_small"}}
  \cup
  {Multipart(CarefulUser, TRUE, [params |-> EmptyDict], <<"a.exe">>, "small",
             [NoFault EXCEPT !.fault = f]) : f \in {"upload", "freshen"}}

InitPar ==
  /\ InitLive
  /\ config = DefaultConfig
  /\ w = [p \in Handlers |-> IdleLocals]
  /\ disk = {}
  /\ filestore \in {{}, {"small"}}
  /\ store0 = filestore
  /\ filerecords = EmptyDict
  /\ ingestQ = <<>>
  /\ nextId = 1
  /\ uploads = <<>>
  /\ returned = <<>>

\* Two workers handle one request each, their steps interleaved.
NextPar ==
  \E p \in Handlers :
    \/ \E req \in ParRequests : Receive(p, req)
    \/ CheckExists(p)
    \/ Upload(p)
    \/ Freshen(p)
    \/ Publish(p)
    \/ Cleanup(p)

SpecPar == InitPar /\ [][NextPar]_vars

\* The suffixes of setup_watch_queue: the default, and the prefix that
\* outstanding_services uses.
Suffixes == {"WQ", "oustanding_services"}

\* One client calls outstanding_services and setup_watch_queue, call after
\* call.
NextWatch ==
  \/ NextCtl
  \/ \E sid \in Sids, user \in LiveUsers, suffix \in Suffixes :
       SetupWatchQueue(1, sid, user, suffix)

SpecWatch == InitQuiet /\ [][NextWatch]_vars

\* The caller and submission of the calls made at the same time.
Admin == [uname |-> "admin", classification |-> "R"]

\* Two clients call outstanding_services or setup_watch_queue for the same
\* submission at the same time, once each, while the engine answers.
NextPair ==
  \/ \E c \in Clients : OutstandingServices(c, "sid.open", Admin)
  \/ \E c \in Clients, suffix \in Suffixes : SetupWatchQueue(c, "sid.open", Admin, suffix)
  \/ \E c \in Clients : Tick(c)
  \/ \E c \in Clients : PopReply(c)
  \/ \E reply \in Replies : EngineAnswer(reply)
  \/ EngineIgnore

SpecPair == InitQuiet /\ [][NextPair]_vars

\* ------------------------------------------------------- claims: ingestion

Range(q) == {q[i] : i \in DOMAIN q}

Finished(p) == w[p].pc = "done"

\* The worker's request got as far as computing the fileinfo of out_file.
Resolved(p) == w[p].original_blob # "none"

\* The job the worker's request published.
Published(p) == {j \in Range(ingestQ) : <<j.sid>> = w[p].resp.body}

CallerSet(p, k) == Has(Get(w[p].data, "params", EmptyDict), k)

\* C1: in every published job the params have deep_scan, ignore_cache,
\* ignore_dynamic_recursion_prevention and ignore_filtering false and type
\* INGEST, whatever the caller supplied in params.
C1_SafetySetWins ==
  \A j \in Range(ingestQ) :
    /\ ~j.params.deep_scan
    /\ ~j.params.ignore_cache
    /\ ~j.params.ignore_dynamic_recursion_prevention
    /\ ~j.params.ignore_filtering
    /\ j.params.type = "INGEST"

\* C2: once a request has completed, on any exit path, its temp directory, its
\* original file and its unpacked file are not on disk.
C2_CleanupOnEveryExit ==
  \A p \in Workers :
    Finished(p) =>
      {OutDir(w[p].out_dir), OriginalFile(w[p].out_dir), ExtractedPath(w[p].out_dir)}
        \cap disk = {}

\* A request that unpacked a wrapper and then met an unexpected error has
\* completed.
C2_Witness ==
  \E p \in Workers :
    Finished(p) /\ w[p].extracted_path /\ w[p].resp.status = 500

\* C3: a resolved file of size zero never passes the size gate, whatever the
\* maximum size and ignore_size: no job is published and, unless
\* identify.fileinfo itself failed, the response is a 400.
C3_EmptyFileRejected ==
  \A p \in Workers :
    (Resolved(p) /\ Size(w[p].original_blob) = 0) =>
      /\ w[p].pc \in {"cleanup", "done"}
      /\ Published(p) = {}
      /\ w[p].resp.body = <<>>
      /\ (w[p].env.fault # "fileinfo" => w[p].resp.status = 400)

\* An empty file sent with ignore_size set has been answered.
C3_Witness ==
  \E p \in Workers :
    /\ Finished(p) /\ Resolved(p) /\ Size(w[p].original_blob) = 0
    /\ Get(w[p].s_params, "ignore_size", FALSE)
    /\ w[p].resp.status = 400

TooLarge(p) == Resolved(p) /\ Size(w[p].original_blob) > config.max_file_size

\* C4: a resolved file larger than the maximum is rejected with a 400 and no
\* job when the params do not set ignore_size; with ignore_size set it passes
\* the size gate and, when no collaborator fails, its job is published.
C4_SizeGate ==
  \A p \in Workers :
    TooLarge(p) =>
      IF ~Get(w[p].s_params, "ignore_size", FALSE)
      THEN /\ w[p].pc \in {"cleanup", "done"}
           /\ Published(p) = {}
           /\ (w[p].env.fault # "fileinfo" => w[p].resp.status = 400)
      ELSE /\ w[p].resp.err # "File too large. Ingestion failed"
           /\ (Finished(p) /\ w[p].env.fault = "none" /\ w[p].env.odm) =>
                (w[p].resp.status = 200 /\ Cardinality(Published(p)) = 1)

\* A file larger than the maximum, sent with ignore_size, has been published.
C4_Witness ==
  \E p \in Workers :
    /\ Finished(p) /\ TooLarge(p) /\ Get(w[p].s_params, "ignore_size", FALSE)
    /\ Cardinality(Published(p)) = 1

\* C5: in every published job priority <= ingest_max_priority, with equality
\* when the caller's priority exceeds the maximum, and ttl <= max_dtl when
\* max_dtl > 0.
C5_PriorityAndTtlClamped ==
  \A p \in Workers : \A j \in Published(p) :
    /\ j.params.priority <= config.ingest_max_priority
    /\ (CallerSet(p, "priority") /\ w[p].data.params.priority > config.ingest_max_priority)
         => j.params.priority = config.ingest_max_priority
    /\ config.max_dtl > 0 => j.params.ttl <= config.max_dtl

\* A job is published for a caller whose priority and ttl both exceed the
\* configured maxima.
C5_Witness ==
  \E p \in Workers : \E j \in Published(p) :
    /\ CallerSet(p, "priority") /\ CallerSet(p, "ttl")
    /\ w[p].data.params.priority > config.ingest_max_priority
    /\ config.max_dtl > 0 /\ w[p].data.params.ttl > config.max_dtl
    /\ j.params.priority = config.ingest_max_priority
    /\ j.params.ttl = config.max_dtl

\* The number of upload calls the store received for hash h.
UploadCount(h) == Cardinality({i \in DOMAIN uploads : uploads[i] = h})

\* The jobs on the ingest queue whose file has hash h.
JobsFor(h) == {i \in DOMAIN ingestQ : ingestQ[i].files[1].sha256 = h}

\* Two requests, the second received after the first was answered, were both
\* admitted with the same final content hash.
SameHashTwice(i, j) ==
  /\ i < j
  /\ returned[i].resp.status = 200 /\ returned[j].resp.status = 200
  /\ returned[i].sha256 = returned[j].sha256

\* C6 as claimed: two successive ingestions of the same final hash make exactly
\* one upload in total, return two different ingest ids and publish two jobs.
C6_ExactlyOneUpload ==
  \A i, j \in DOMAIN returned :
    SameHashTwice(i, j) =>
      /\ UploadCount(returned[i].sha256) = 1
      /\ returned[i].resp.body # returned[j].resp.body
      /\ Cardinality(JobsFor(returned[i].sha256)) >= 2

\* C6 amended: two successive ingestions of the same final hash make at most
\* one upload in total: exactly one when the hash was not in the store before
\* the first request, none when it was; they return two different ingest ids
\* and each publishes its own job.
C6_AtMostOneUpload ==
  \A i, j \in DOMAIN returned :
    SameHashTwice(i, j) =>
      /\ UploadCount(returned[i].sha256) =
           (IF Exists(store0, returned[i].sha256) THEN 0 ELSE 1)
      /\ returned[i].resp.body # returned[j].resp.body
      /\ \E a, b \in JobsFor(returned[i].sha256) :
           /\ a # b
           /\ <<ingestQ[a].sid>> = returned[i].resp.body
           /\ <<ingestQ[b].sid>> = returned[j].resp.body

\* The same new content was ingested twice and uploaded once.
C6_Witness ==
  \E i, j \in DOMAIN returned :
    /\ SameHashTwice(i, j)
    /\ ~Exists(store0, returned[i].sha256)
    /\ UploadCount(returned[i].sha256) = 1

\* ------------------------------------------------------ claims: live reads

\* The table of the live status protocol: what a popped message (<<>> when
\* there is none) is answered with.
TableType(popped) ==
  IF popped = <<>> THEN "timeout"
  ELSE CASE popped[1].status = "STOP" -> "stop"
         [] popped[1].status = "START" -> "start"
         [] popped[1].status = "OK" -> "cachekey"
         [] popped[1].status = "FAIL" -> "cachekeyerr"
         [] OTHER -> "error"

TableCode(popped) ==
  CASE TableType(popped) = "timeout" -> 408
    [] TableType(popped) = "error" -> 500
    [] OTHER -> 200

TableMsg(popped) ==
  CASE TableType(popped) = "timeout" -> MsgNull
    [] TableType(popped) = "stop" -> MsgText("All messages received, closing queue...")
    [] TableType(popped) = "start" -> MsgText("Start listening...")
    [] TableType(popped) \in {"cachekey", "cachekeyerr"} -> MsgText(popped[1].cache_key)
    [] OTHER -> MsgRaw(popped[1])

AsTable(r, popped) ==
  /\ r.type = TableType(popped)
  /\ r.status_code = TableCode(popped)
  /\ r.msg = TableMsg(popped)

FirstOf(q) == IF q = <<>> THEN <<>> ELSE <<q[1]>>

\* C7: get_message answers in one step, after one pop, with the table's
\* mapping of the message at the head of the queue (timeout when there is
\* none, error/500 with the raw message for an unknown status).
C7_ReadOneFollowsTable ==
  \A c \in Clients :
    lp[c].op = "get_message" =>
      /\ lp[c].pc = "done"
      /\ lp[c].pops = 1
      /\ Len(lp[c].result) = 1
      /\ AsTable(lp[c].result[1], FirstOf(lp[c].atCall))
      /\ lp[c].left = (IF lp[c].atCall = <<>> THEN <<>> ELSE Tail(lp[c].atCall))

\* get_message has answered a message whose status it does not know.
C7_Witness ==
  \E c \in Clients :
    /\ lp[c].op = "get_message" /\ lp[c].pc = "done"
    /\ lp[c].atCall # <<>>
    /\ lp[c].atCall[1].status \notin {"START", "STOP", "OK", "FAIL"}
    /\ lp[c].result[1].type = "error"

Drained(c) == lp[c].op = "get_messages" /\ lp[c].pc = "done"

\* C8: with no push during the call, get_messages on a queue of N messages
\* returns N entries, the i-th the table's mapping of the i-th message, and
\* leaves the queue empty.
C8_DrainAllInOrder ==
  \A c \in Clients :
    (Drained(c) /\ ~lp[c].disturbed) =>
      /\ Len(lp[c].result) = Len(lp[c].atCall)
      /\ \A i \in DOMAIN lp[c].result : AsTable(lp[c].result[i], <<lp[c].atCall[i]>>)
      /\ lp[c].left = <<>>

\* An undisturbed drain of a queue with a STOP message before other messages.
C8_Witness ==
  \E c \in Clients :
    /\ Drained(c) /\ ~lp[c].disturbed
    /\ Len(lp[c].atCall) >= 2
    /\ lp[c].atCall[1].status = "STOP"
    /\ Len(lp[c].result) = Len(lp[c].atCall)

\* C9: whatever the producer pushes during the call, get_messages ends after at
\* most N+1 pops, N the number of messages on the queue when the call began,
\* and returns exactly the mappings of those N messages.
C9_DrainBoundedByCallTime ==
  \A c \in Clients :
    Drained(c) =>
      /\ lp[c].pops <= Len(lp[c].atCall) + 1
      /\ Len(lp[c].result) = Len(lp[c].atCall)
      /\ \A i \in DOMAIN lp[c].result : AsTable(lp[c].result[i], <<lp[c].atCall[i]>>)

\* ------------------------------------------------- claims: control requests

\* The call of client c passed the access check and pushed its request.
Requested(c) == lp[c].op = "outstanding_services" /\ lp[c].wq # <<>>

\* The replies pushed on the reply queue of client c before its bound expired.
InTime(c) ==
  {i \in DOMAIN replyLog : replyLog[i].queue = lp[c].wq /\ replyLog[i].inTime}

\* C10: outstanding_services for an accessible submission pushes one request
\* that carries a reply queue name no other request carries, then waits on
\* that queue for at most PopTimeout seconds: it returns the reply pushed
\* there before the bound expired, and the timeout indicator (None), at the
\* bound, when there is none.
C10_RequestReply ==
  \A c \in Clients :
    Requested(c) =>
      /\ Cardinality({i \in DOMAIN ctlPushed : ctlPushed[i].watch_queue = lp[c].wq}) = 1
      /\ lp[c].elapsed <= PopTimeout
      /\ lp[c].pc \in {"wait", "done"}
      /\ lp[c].pc = "done" =>
           IF InTime(c) # {}
           THEN \E i \in InTime(c) :
                  /\ \A k \in InTime(c) : i <= k
                  /\ lp[c].result = <<ApiResponse(200, <<replyLog[i].msg>>)>>
           ELSE /\ lp[c].result = <<ApiResponse(200, <<>>)>>
                /\ lp[c].elapsed = PopTimeout

\* A call that waited got the reply the engine pushed before the bound.
C10_Witness ==
  \E c \in Clients :
    /\ Requested(c) /\ lp[c].pc = "done"
    /\ lp[c].elapsed > 0
    /\ InTime(c) # {}
    /\ lp[c].result[1].body # <<>>

\* The replies the engine pushed on the queue that the call of client c named.
OnQueueOf(c) == {i \in DOMAIN replyLog : replyLog[i].queue = lp[c].wq}

\* C11: calls of outstanding_services and setup_watch_queue made at the same
\* time, for the same sid and state included, each put a reply queue name of
\* their own in their request, so what the engine answers to the request of
\* one call lands on the queue of that call only, and a call returns nothing
\* but an answer to its own request.
C11_NoCrossDelivery ==
  /\ \A i, j \in DOMAIN ctlPushed :
       i # j => ctlPushed[i].watch_queue # ctlPushed[j].watch_queue
  /\ \A c \in Clients :
       lp[c].req_no # 0 =>
         /\ ctlPushed[lp[c].req_no].watch_queue = lp[c].wq
         /\ \A i \in OnQueueOf(c) : replyLog[i].request = lp[c].req_no
         /\ (lp[c].op = "outstanding_services" /\ lp[c].pc = "done"
              /\ lp[c].result[1].body # <<>>) =>
              \E i \in OnQueueOf(c) : lp[c].result[1].body = <<replyLog[i].msg>>

\* Two calls of outstanding_services for the same submission were in flight
\* together, the engine answered both, and each returned its own answer.
C11_Witness ==
  /\ \A c \in Clients :
       /\ lp[c].op = "outstanding_services" /\ lp[c].pc = "done"
       /\ lp[c].sid = "sid.open"
       /\ lp[c].result[1].body # <<>>
  /\ lp[1].result[1].body # lp[2].result[1].body
  /\ ctlPushed[1].state = ctlPushed[2].state
  /\ Len(replyLog) = 2

\* The step of client c is a call of handler op that passes the access check.
AllowedCall(c, op) ==
  /\ lp[c].pc = "idle" /\ lp'[c].pc # "idle" /\ lp'[c].op = op
  /\ Allowed(lp'[c].user, GetSubmission(lp'[c].sid))

\* The names of the queues that requests pushed so far carry.
NamesSoFar == {ctlPushed[i].watch_queue : i \in DOMAIN ctlPushed}

\* C12: setup_watch_queue for a submission the caller may access pushes one
\* message on control-queue and nothing else on any queue: state `watch`, the
\* sid of the call, the configured maximum priority, and a watch_queue name
\* that no request carried before. It does not pop or wait, and it returns
\* {wq_id: name} with the very name of the pushed message.
C12_WatchRequest ==
  [][\A c \in Clients :
       AllowedCall(c, "setup_watch_queue") =>
         /\ Len(ctlPushed') = Len(ctlPushed) + 1
         /\ LET name == ctlPushed'[Len(ctlPushed')].watch_queue
                msg == [state |-> "watch", priority |-> config.submissions_max_priority,
                        sid |-> lp'[c].sid, watch_queue |-> name]
            IN /\ name \notin NamesSoFar \cup {ControlQueue}
               /\ Queue(queues, name) = <<>>
               /\ queues' = Push(queues, ControlQueue, msg)
               /\ ctlPushed' = Append(ctlPushed, msg)
               /\ lp'[c].pc = "done"
               /\ lp'[c].pops = 0 /\ lp'[c].elapsed = 0
               /\ lp'[c].result = <<ApiResponse(200, <<[wq_id |-> name]>>)>>]_vars

\* A second request for a watch queue was answered with its queue's name.
C12_Witness ==
  /\ lp[1].op = "setup_watch_queue" /\ lp[1].pc = "done"
  /\ lp[1].req_no = 2
  /\ lp[1].result[1].status_code = 200
  /\ ctlPushed[2].state = "watch" /\ ctlPushed[2].sid = lp[1].sid

\* The step of client c is a call of one of the two handlers that fails the
\* access check: the caller may not see the submission, or there is none.
DeniedCall(c) ==
  /\ lp[c].pc = "idle" /\ lp'[c].pc # "idle"
  /\ lp'[c].op \in {"outstanding_services", "setup_watch_queue"}
  /\ ~Allowed(lp'[c].user, GetSubmission(lp'[c].sid))

\* C13: when the caller may not access the submission, or the submission does
\* not exist, outstanding_services and setup_watch_queue answer 403 at once
\* and leave every queue as it was: no push on control-queue, no reply queue
\* name taken, no pop.
C13_DeniedLeavesQueues ==
  [][\A c \in Clients :
       DeniedCall(c) =>
         /\ lp'[c].pc = "done"
         /\ lp'[c].result[1].status_code = 403
         /\ queues' = queues
         /\ ctlPushed' = ctlPushed
         /\ nextReply' = nextReply
         /\ lp'[c].wq = <<>> /\ lp'[c].req_no = 0
         /\ lp'[c].pops = 0 /\ lp'[c].elapsed = 0]_vars

\* A call was denied while an earlier request was still on control-queue.
C13_Witness ==
  /\ lp[1].pc = "done" /\ lp[1].calls = 2
  /\ lp[1].op \in {"outstanding_services", "setup_watch_queue"}
  /\ ~Allowed(lp[1].user, GetSubmission(lp[1].sid))
  /\ lp[1].result = <<ApiResponse(403, <<>>)>>
  /\ Queue(queues, ControlQueue) # <<>>

\* ------------------------------------------- claims: ingestion by url, hash

\* The worker has a request in hand, or has answered it.
InHand(p) == w[p].pc # "idle"

\* The data block of the worker's application/json request, EmptyDict for
\* another content type.
JsonData(p) == IF w[p].req.ctype = "application/json" THEN w[p].req.json ELSE EmptyDict

\* The request names a url and no hash.
ByUrl(p) ==
  /\ TruthyPath(Get(JsonData(p), "url", NonePath))
  /\ ~TruthyPath(Get(JsonData(p), "sha256", NonePath))

\* The request names a hash.
BySha256(p) == TruthyPath(Get(JsonData(p), "sha256", NonePath))

\* The request passes the checks that come before "Load file".
WellFormed(p) ==
  /\ ParseRequest(w[p].req).kind = "ok"
  /\ ValidateRequest(ParseRequest(w[p].req)).kind = "ok"

\* The temp directory of the worker's request and the files in it.
TempFiles(p) ==
  {OutDir(w[p].out_dir), OriginalFile(w[p].out_dir), ExtractedPath(w[p].out_dir)}

\* C14: a request that names a url and no sha256 while allow_url_submissions
\* is off is rejected with status 400, and with the message "URL submissions
\* are disabled in this system" when it passes the checks made before the
\* file is loaded; safe_download is not called, the request goes no further
\* than the rejection, so no job is published, and nothing of its temp
\* directory remains once it is answered.
C14_UrlSubmissionsDisabled ==
  \A p \in Workers :
    (InHand(p) /\ ByUrl(p) /\ ~config.allow_url_submissions) =>
      /\ w[p].pc \in {"cleanup", "done"}
      /\ w[p].resp.status = 400 /\ w[p].resp.body = <<>>
      /\ WellFormed(p) =>
           w[p].resp = Response(400, "URL submissions are disabled in this system")
      /\ w[p].loader = "none"
      /\ Finished(p) => TempFiles(p) \cap disk = {}

\* A well-formed request by url was refused because url submissions are off,
\* after its temp directory was made.
C14_Witness ==
  \E p \in Workers :
    /\ Finished(p) /\ ByUrl(p) /\ ~config.allow_url_submissions
    /\ WellFormed(p)
    /\ w[p].original_file
    /\ w[p].resp.err = "URL submissions are disabled in this system"

\* safe_download was called for the worker's request and ended with outcome.
Fetched(p, outcome) ==
  /\ InHand(p) /\ ByUrl(p)
  /\ w[p].loader = "safe_download"
  /\ w[p].env.fault = "none" /\ w[p].env.fetch = outcome

\* C15 as claimed: an ingestion by url whose fetch signals ForbiddenLocation
\* is rejected with status 403, unlike the 400 of an invalid url or a fetch
\* that is too big.
C15_ForbiddenIs403 ==
  \A p \in Workers :
    Fetched(p, "ForbiddenLocation") => w[p].resp.status = 403

\* C15, amended: an ingestion by url whose fetch signals ForbiddenLocation is
\* rejected with status 400 and the message "Hostname in this URL cannot be
\* resolved."; an invalid url and a fetch that is too big are rejected with
\* status 400 too, each with a message of its own, and none of the three
\* goes on to the store or the ingest queue.
C15_ForbiddenIs400ByMessage ==
  \A p \in Workers :
    /\ Fetched(p, "ForbiddenLocation") =>
         w[p].resp = Response(400, "Hostname in this URL cannot be resolved.")
    /\ Fetched(p, "InvalidUrlException") =>
         w[p].resp = Response(400, "Url provided is invalid.")
    /\ Fetched(p, "FileTooBigException") =>
         w[p].resp = Response(400, "File too big to be scanned.")
    /\ (\E o \in {"ForbiddenLocation", "InvalidUrlException", "FileTooBigException"} :
          Fetched(p, o)) => w[p].pc \in {"cleanup", "done"}

\* A fetch that signalled ForbiddenLocation has been answered.
C15_Witness ==
  \E p \in Workers :
    Finished(p) /\ Fetched(p, "ForbiddenLocation") /\ w[p].resp.status = 400

\* The hash the request names.
SubmittedSha256(p) == Get(JsonData(p), "sha256", NonePath)

\* The worker has a well-formed request by hash in hand, and the content
\* store does not hold the hash.
AbsentHash(p) ==
  /\ InHand(p) /\ BySha256(p) /\ WellFormed(p)
  /\ ~Exists(filestore, SubmittedSha256(p))

\* C16: an ingestion by sha256 of a hash the content store does not hold is
\* rejected with 404, and from its receipt on no step changes the content
\* store, the file records or the ingest queue: it makes no download, no
\* upload, no freshen and publishes no job.
C16_AbsentHashNotFound ==
  [][\A p \in Workers :
       AbsentHash(p)' =>
         /\ w'[p].resp = Response(404, "SHA256 does not exist in our datastore")
         /\ w'[p].pc \in {"cleanup", "done"}
         /\ w'[p].loader = "none"
         /\ filestore' = filestore /\ uploads' = uploads
         /\ filerecords' = filerecords
         /\ ingestQ' = ingestQ]_vars

\* A hash the store does not hold was refused after an earlier request had
\* filled the store, the file records and the ingest queue.
C16_Witness ==
  \E p \in Workers :
    /\ Finished(p) /\ AbsentHash(p)
    /\ w[p].resp.status = 404
    /\ ingestQ # <<>> /\ uploads # <<>> /\ DOMAIN filerecords # {}

\* The worker has answered a request by hash that also gives a name, the
\* content store held the hash when the request came, and no collaborator
\* failed.
StoredHash(p) ==
  /\ Finished(p) /\ BySha256(p)
  /\ TruthyPath(Get(JsonData(p), "name", NonePath))
  /\ Exists(store0, SubmittedSha256(p))
  /\ w[p].env.fault = "none" /\ w[p].env.odm

\* The request was answered with an ingest_id, its job is the one job on the
\* ingest queue, the job's one file has hash sha256 and the size of content
\* b, and the store received no upload.
IngestedAs(p, sha256, b) ==
  /\ w[p].resp.status = 200 /\ Len(w[p].resp.body) = 1
  /\ Len(ingestQ) = 1
  /\ <<ingestQ[1].sid>> = w[p].resp.body
  /\ Len(ingestQ[1].files) = 1
  /\ ingestQ[1].files[1].sha256 = sha256
  /\ ingestQ[1].files[1].size = Size(b)
  /\ uploads = <<>>

\* C17 as claimed: an ingestion by sha256, with a name, of a hash the store
\* holds returns an ingest_id and publishes one job whose single file entry
\* has the submitted sha256 and the size of the stored content, without an
\* upload.
C17_HashIngestedAsSubmitted ==
  \A p \in Workers :
    StoredHash(p) =>
      IngestedAs(p, SubmittedSha256(p), Stored(store0, SubmittedSha256(p)))

\* The stored content passes the size gate as it is: it is not empty, and it
\* is no larger than the maximum unless the params set ignore_size.
PassesSizeGate(p, b) ==
  /\ Size(b) > 0
  /\ Size(b) <= config.max_file_size \/ Get(w[p].s_params, "ignore_size", FALSE)

\* C17, amended: an ingestion by sha256, with a name, of a hash the store
\* holds, whose stored content passes the size gate and is not a wrapper that
\* decode_file unpacks, returns an ingest_id and publishes one job whose
\* single file entry has the submitted sha256 and the size of the stored
\* content, without an upload.  Stored content that fails the size gate is
\* rejected with a 400 and no job.
C17_PlainHashIngestedAsSubmitted ==
  \A p \in Workers :
    StoredHash(p) =>
      LET b == Stored(store0, SubmittedSha256(p))
      IN IF ~PassesSizeGate(p, b)
         THEN w[p].resp.status = 400 /\ ingestQ = <<>> /\ uploads = <<>>
         ELSE ~IsCart(b) => IngestedAs(p, SubmittedSha256(p), b)

\* A stored plain content was ingested by its hash.
C17_Witness ==
  \E p \in Workers :
    /\ StoredHash(p)
    /\ ~IsCart(Stored(store0, SubmittedSha256(p)))
    /\ w[p].loader = "f_transport.download"
    /\ w[p].resp.status = 200
    /\ ingestQ # <<>>

\* ------------------------------------------- claims: ingestion, admission

\* The request is application/json and names neither a hash nor a url.
NoSource(p) ==
  /\ w[p].req.ctype = "application/json"
  /\ ~TruthyPath(Get(JsonData(p), "sha256", NonePath))
  /\ ~TruthyPath(Get(JsonData(p), "url", NonePath))

\* C18: an application/json request that names neither a hash nor a url is
\* rejected with a 400 whatever its other fields, with a name or without, and
\* never ends in an unhandled error.
C18_NoSourceIs400 ==
  \A p \in Workers :
    (InHand(p) /\ NoSource(p)) =>
      /\ w[p].pc \in {"cleanup", "done"}
      /\ w[p].resp.status = 400
      /\ w[p].resp # Unhandled

\* The request is a multipart upload without a `json` part, with a file name
\* and a file that is not empty and not larger than the maximum, and no
\* collaborator fails.
BareUpload(p) ==
  /\ w[p].req.ctype = "multipart/form-data" /\ ~w[p].req.hasJson
  /\ TruthyBinary(w[p].req.bin)
  /\ Size(w[p].req.bin.blob) > 0 /\ Size(w[p].req.bin.blob) <= config.max_file_size
  /\ w[p].env.fault = "none" /\ w[p].env.odm

\* C19: a multipart upload with a file name and a non-empty file within the
\* size limit, and no `json` part, is admitted and its job is published.
C19_BareUploadAdmitted ==
  \A p \in Workers :
    (Finished(p) /\ BareUpload(p)) =>
      /\ w[p].resp.status = 200
      /\ Published(p) # {}

\* The messages of the rejections made up to and including the size gate.
AdmissionErrors ==
  {"Invalid content type", "Missing data block",
   "notification_threshold should be and int", "generate_alert should be a boolean",
   "Filename missing", "Invalid filename",
   "SHA256 does not exist in our datastore",
   "URL submissions are disabled in this system",
   "File too big to be scanned.", "Url provided is invalid.",
   "Hostname in this URL cannot be resolved.",
   "Missing file to scan. No binary, sha256 or url provided.",
   "File too large. Ingestion failed", "File empty. Ingestion failed"}

\* The worker's request was rejected at a step up to the size gate.
RejectedEarly(p) ==
  /\ w[p].pc \in {"cleanup", "done"}
  /\ w[p].resp.status \in {400, 404}
  /\ w[p].resp.err \in AdmissionErrors

\* The jobs on the ingest queue that carry the ingest_id of response resp.
JobsOf(resp) == {k \in DOMAIN ingestQ : <<ingestQ[k].sid>> = resp.body}

\* The requests answered so far that ended in success.
Successes == {i \in DOMAIN returned : returned[i].resp.status = 200}

C21_IngestIdKept ==
  /\ \A k \in DOMAIN ingestQ :
       /\ Has(ingestQ[k].metadata, "ingest_id")
       /\ ingestQ[k].metadata.ingest_id = ingestQ[k].sid
  /\ \A p \in Workers :
       (Finished(p) /\ w[p].resp.status = 200) =>
         \E k \in DOMAIN ingestQ : w[p].resp.body = <<ingestQ[k].sid>>

\* C22: every job on the ingest queue references a file whose size is not
\* zero and, unless its params set ignore_size, not larger than the maximum,
\* also when the resolved file was a wrapper and the job references the
\* unpacked content.
C22_PublishedSizeGated ==
  \A k \in DOMAIN ingestQ :
    LET file == ingestQ[k].files[1]
    IN /\ file.size # 0
       /\ file.size <= config.max_file_size
            \/ Get(ingestQ[k].params, "ignore_size", FALSE)

\* C23: under any interleaving of ingestion attempts, two attempts for the
\* same content that both see the hash as absent included, when a job is
\* pushed on the ingest queue the content store holds the sha256 the job
\* references and the file records have its record: within an attempt the
\* exists check or upload and the freshen come before the push.
C23_StoredBeforePublished ==
  [][Len(ingestQ') > Len(ingestQ) =>
       /\ Len(ingestQ') = Len(ingestQ) + 1
       /\ LET sha256 == ingestQ'[Len(ingestQ')].files[1].sha256
          IN /\ Exists(filestore, sha256) /\ Exists(filestore', sha256)
             /\ Has(filerecords, sha256) /\ Has(filerecords', sha256)]_vars

\* Two attempts for the same content both saw the hash as absent, both
\* uploaded it and both published their job.
C23_Witness ==
  /\ \A p \in Handlers : Finished(p) /\ ~w[p].found /\ w[p].resp.status = 200
  /\ w[1].fileinfo.sha256 = w[2].fileinfo.sha256
  /\ Len(uploads) = 2 /\ Len(ingestQ) = 2

====
